---- MODULE Spec2Model ----
(***************************************************************************)
(* Model of the rapid_chain coordinator (src/coordinator.go).              *)
(*                                                                         *)
(* Two phases of the program are modelled over one set of variables:       *)
(*   - bootstrap: launchCoordinator's accept loop, the per-connection      *)
(*     handshake handlers (coordinatorHandleConnection) and the            *)
(*     coordinator goroutine (registry drain, shuffle, committee           *)
(*     assignment, verification, broadcast);                               *)
(*   - telemetry: the concurrent coordinatorDebugStatsHandleConnection     *)
(*     handlers working on the route-tx and IDA-gossip stores.             *)
(*                                                                         *)
(* Go indices are kept 0-based (i, c, iCommittee); TLA+ sequences are      *)
(* 1-based, so element i of a Go slice x is x[i + 1].                      *)
(***************************************************************************)
EXTENDS Integers, Sequences, FiniteSets, TLC

\* ------------------------------------------------------------------ bounds
\* largest n explored by the assignment-only specification
MaxN == 17
\* largest n explored by the full bootstrap specification
MaxConn == 3
\* number of debug/telemetry connections accepted
MaxHandlers == 3

\* ------------------------------------------------------- program constants
\* flagArgs.committeeF and flagArgs.totalF as set by the flag defaults
committeeF == 2
totalF == 3

\* zero value of [32]byte (an untagged CommitteeID) and of *PubKey
ZeroID == 0

VARIABLES
    n, m,               \* flagArgs.n, flagArgs.m
    proc,               \* "running" | "panic" (runtime fault) | "fatal" (log.Fatal)
    mainPc,             \* launchCoordinator: "accept" | "wait_done" | "debug"
    accepted,           \* launchCoordinator's i: connections accepted so far
    connPc,             \* coordinatorHandleConnection position, per connection
    connMsg,            \* returnMessage held by each connection handler
    connSent,           \* number of responses encoded onto each connection
    chanToCoordinator,  \* buffered registry channel (capacity n)
    chanClosed,         \* close(chanToCoordinator) executed
    wg, wg_done,        \* the two sync.WaitGroup counters
    coordPc,            \* coordinator goroutine position
    nodeInfos,          \* []NodeAllInfo
    committees,         \* [][32]byte
    i, c,               \* loop index and committee index of coordinator()
    committeeInfos,     \* []committeeInfo
    iCommittee, lastCommittee,
    checkTotalF,
    msg,                \* ResponseToNodes built by coordinator()
    bcast,              \* index of the next chanToNodes entry to send on
    spawned,            \* debug connections accepted by launchCoordinator
    hPc,                \* coordinatorDebugStatsHandleConnection position
    hMsg,               \* the Msg each debug handler received
    hOk,                \* the handler's local ok
    hS,                 \* the handler's local s (fields of the line, in order)
    rMap, rMapMux,      \* routetxmap.m and routetxmap.mux
    idaresults, idaMux, \* IDAGossipResultsMap.m and IDAGossipResultsMap.mux
    files,              \* the six result files, by index 0..5
    rAcq,               \* history: per route record and operation, the first
                        \* handler to acquire the record's mux for it (0: none)
    idaAcq,             \* history: per IDA record, the handlers in the order
                        \* they acquired its mux, with the operation
    finalBlockChan      \* buffered channel of FinalBlock (capacity 2 * m)

bootVars == <<n, m, proc, mainPc, accepted, connPc, connMsg, connSent,
              chanToCoordinator, chanClosed, wg, wg_done, coordPc, nodeInfos,
              committees, i, c, committeeInfos, iCommittee, lastCommittee,
              checkTotalF, msg, bcast>>

telVars == <<spawned, hPc, hMsg, hOk, hS, rMap, rMapMux, idaresults, idaMux,
             files, rAcq, idaAcq, finalBlockChan>>

vars == <<bootVars, telVars>>

\* ------------------------------------------------------------ pure helpers
\* npm := int(flagArgs.n / flagArgs.m); rest := int(flagArgs.n % flagArgs.m)
npm == n \div m
rest == n % m

\* int(math.Ceil(float64(a) / float64(b))) for a >= 0, b > 0
CeilDiv(a, b) == (a + b - 1) \div b

\* 6 / c_div with c_div = 3 for an even committee index and 1 for an odd one
AdvDivisor(cc) == 6 \div (IF cc % 2 = 0 THEN 3 ELSE 1)

\* f := t_npm / (6 / c_div); if t_npm % (6 / c_div) == 0 { f-- }
AdvCount(t_npm, cc) ==
    IF t_npm % AdvDivisor(cc) = 0
    THEN (t_npm \div AdvDivisor(cc)) - 1
    ELSE t_npm \div AdvDivisor(cc)

\* committees[i] = hash(getBytes(rand.Intn(maxId))): digests of distinct
\* committees are distinct and differ from the zero value
CommitteeDigest(k) == k + 1

NoMsg == <<>>

ZeroNode == [Pub |-> ZeroID, CommitteeID |-> ZeroID, IsHonest |-> FALSE]
ZeroCommitteeInfo == [id |-> ZeroID, npm |-> 0, f |-> 0]

\* ====================================================== bootstrap phase
Conns == 1..n

\* a runtime fault (index out of range, integer divide by zero) or a
\* log.Fatal ends the whole process: no action is enabled afterwards
Running == proc = "running"

\* --- launchCoordinator: accept loop (lines 204-217)
MainAccept ==
    /\ Running /\ mainPc = "accept" /\ accepted < n
    /\ accepted' = accepted + 1
    /\ connPc' = [connPc EXCEPT ![accepted + 1] = "decode"]
    /\ mainPc' = IF accepted + 1 = n THEN "wait_done" ELSE "accept"
    /\ UNCHANGED telVars
    /\ UNCHANGED <<n, m, proc, connMsg, connSent, chanToCoordinator, chanClosed,
                   wg, wg_done, coordPc, nodeInfos, committees, i, c,
                   committeeInfos, iCommittee, lastCommittee, checkTotalF, msg,
                   bcast>>

\* (mutant of MainWaitDone: the debug loop starts without wg_done.Wait())
MainNoWaitDone ==
    /\ Running /\ mainPc = "wait_done"
    /\ mainPc' = "debug"
    /\ UNCHANGED telVars
    /\ UNCHANGED <<n, m, proc, accepted, connPc, connMsg, connSent,
                   chanToCoordinator, chanClosed, wg, wg_done, coordPc, nodeInfos,
                   committees, i, c, committeeInfos, iCommittee, lastCommittee,
                   checkTotalF, msg, bcast>>

\* --- launchCoordinator: wg_done.Wait() then the debug accept loop (219-243)
MainWaitDone ==
    /\ Running /\ mainPc = "wait_done" /\ wg_done = 0
    /\ mainPc' = "debug"
    /\ UNCHANGED telVars
    /\ UNCHANGED <<n, m, proc, accepted, connPc, connMsg, connSent,
                   chanToCoordinator, chanClosed, wg, wg_done, coordPc, nodeInfos,
                   committees, i, c, committeeInfos, iCommittee, lastCommittee,
                   checkTotalF, msg, bcast>>

\* --- coordinatorHandleConnection (246-275)
\* dec.Decode(rec_msg): a decodable handshake (a failed decode is fatal)
ConnDecode(k) ==
    /\ Running /\ connPc[k] = "decode"
    /\ connPc' = [connPc EXCEPT ![k] = "publish"]
    /\ UNCHANGED telVars
    /\ UNCHANGED <<n, m, proc, mainPc, accepted, connMsg, connSent,
                   chanToCoordinator, chanClosed, wg, wg_done, coordPc, nodeInfos,
                   committees, i, c, committeeInfos, iCommittee, lastCommittee,
                   checkTotalF, msg, bcast>>

\* chanToCoordinator <- InitialMessageToCoordinator{...}: blocks while the
\* buffer (capacity flagArgs.n) is full; the pair is identified by k
ConnPublish(k) ==
    /\ Running /\ connPc[k] = "publish"
    /\ IF chanClosed
       THEN \* send on a closed channel
            /\ proc' = "panic"
            /\ UNCHANGED <<chanToCoordinator, connPc>>
       ELSE /\ Len(chanToCoordinator) < n
            /\ chanToCoordinator' = Append(chanToCoordinator, k)
            /\ connPc' = [connPc EXCEPT ![k] = "wg_done_1"]
            /\ UNCHANGED proc
    /\ UNCHANGED telVars
    /\ UNCHANGED <<n, m, mainPc, accepted, connMsg, connSent, chanClosed,
                   wg, wg_done, coordPc, nodeInfos, committees, i, c,
                   committeeInfos, iCommittee, lastCommittee, checkTotalF, msg,
                   bcast>>

\* wg.Done()
ConnWgDone(k) ==
    /\ Running /\ connPc[k] = "wg_done_1"
    /\ wg' = wg - 1
    /\ connPc' = [connPc EXCEPT ![k] = "recv"]
    /\ UNCHANGED telVars
    /\ UNCHANGED <<n, m, proc, mainPc, accepted, connMsg, connSent,
                   chanToCoordinator, chanClosed, wg_done, coordPc, nodeInfos,
                   committees, i, c, committeeInfos, iCommittee, lastCommittee,
                   checkTotalF, msg, bcast>>

\* enc.Encode(returnMessage)
ConnEncode(k) ==
    /\ Running /\ connPc[k] = "encode"
    /\ connSent' = [connSent EXCEPT ![k] = @ + 1]
    /\ connPc' = [connPc EXCEPT ![k] = "wg_done_2"]
    /\ UNCHANGED telVars
    /\ UNCHANGED <<n, m, proc, mainPc, accepted, connMsg, chanToCoordinator,
                   chanClosed, wg, wg_done, coordPc, nodeInfos, committees, i, c,
                   committeeInfos, iCommittee, lastCommittee, checkTotalF, msg,
                   bcast>>

\* wg_done.Done()
ConnSignalDone(k) ==
    /\ Running /\ connPc[k] = "wg_done_2"
    /\ wg_done' = wg_done - 1
    /\ connPc' = [connPc EXCEPT ![k] = "returned"]
    /\ UNCHANGED telVars
    /\ UNCHANGED <<n, m, proc, mainPc, accepted, connMsg, connSent,
                   chanToCoordinator, chanClosed, wg, coordPc, nodeInfos,
                   committees, i, c, committeeInfos, iCommittee, lastCommittee,
                   checkTotalF, msg, bcast>>

\* --- coordinator (277-424)
\* (mutant of CoordWait: coordinator() goes on without wg.Wait())
CoordNoWait ==
    /\ Running /\ coordPc = "wait"
    /\ coordPc' = "close"
    /\ UNCHANGED telVars
    /\ UNCHANGED <<n, m, proc, mainPc, accepted, connPc, connMsg, connSent,
                   chanToCoordinator, chanClosed, wg, wg_done, nodeInfos,
                   committees, i, c, committeeInfos, iCommittee, lastCommittee,
                   checkTotalF, msg, bcast>>

\* wg.Wait(): returns once every handler has called wg.Done()
CoordWait ==
    /\ Running /\ coordPc = "wait" /\ wg = 0
    /\ coordPc' = "close"
    /\ UNCHANGED telVars
    /\ UNCHANGED <<n, m, proc, mainPc, accepted, connPc, connMsg, connSent,
                   chanToCoordinator, chanClosed, wg, wg_done, nodeInfos,
                   committees, i, c, committeeInfos, iCommittee, lastCommittee,
                   checkTotalF, msg, bcast>>

\* close(chanToCoordinator); nodeInfos := make([]NodeAllInfo, flagArgs.n); i := 0
CoordClose ==
    /\ Running /\ coordPc = "close"
    /\ chanClosed' = TRUE
    /\ nodeInfos' = [k \in 1..n |-> ZeroNode]
    /\ i' = 0
    /\ coordPc' = "drain"
    /\ UNCHANGED telVars
    /\ UNCHANGED <<n, m, proc, mainPc, accepted, connPc, connMsg, connSent,
                   chanToCoordinator, wg, wg_done, committees, c, committeeInfos,
                   iCommittee, lastCommittee, checkTotalF, msg, bcast>>

\* for elem := range chanToCoordinator { nodeInfos[i].Pub = elem.pub; i += 1 }
\* the range ends when the closed channel is empty
CoordDrain ==
    /\ Running /\ coordPc = "drain" /\ chanClosed
    /\ IF chanToCoordinator = <<>>
       THEN /\ coordPc' = "shuffle"
            /\ UNCHANGED <<proc, chanToCoordinator, nodeInfos, i>>
       ELSE IF i >= n
       THEN /\ proc' = "panic"
            /\ UNCHANGED <<coordPc, chanToCoordinator, nodeInfos, i>>
       ELSE /\ nodeInfos' = [nodeInfos EXCEPT ![i + 1].Pub = Head(chanToCoordinator)]
            /\ chanToCoordinator' = Tail(chanToCoordinator)
            /\ i' = i + 1
            /\ UNCHANGED <<proc, coordPc>>
    /\ UNCHANGED telVars
    /\ UNCHANGED <<n, m, mainPc, accepted, connPc, connMsg, connSent, chanClosed,
                   wg, wg_done, committees, c, committeeInfos, iCommittee,
                   lastCommittee, checkTotalF, msg, bcast>>

\* rand.Seed(time.Now().UnixNano()); rand.Shuffle(len(nodeInfos), swap):
\* the time-derived seed makes any permutation of the list possible
CoordShuffle ==
    /\ Running /\ coordPc = "shuffle"
    /\ \E perm \in Permutations(1..n) :
           nodeInfos' = [k \in 1..n |-> nodeInfos[perm[k]]]
    /\ coordPc' = "committees"
    /\ UNCHANGED telVars
    /\ UNCHANGED <<n, m, proc, mainPc, accepted, connPc, connMsg, connSent,
                   chanToCoordinator, chanClosed, wg, wg_done, committees, i, c,
                   committeeInfos, iCommittee, lastCommittee, checkTotalF, msg,
                   bcast>>

\* committees := make([][32]byte, flagArgs.m), filled with digests; c := 0
CoordCommittees ==
    /\ Running /\ coordPc = "committees"
    /\ committees' = [k \in 1..m |-> CommitteeDigest(k - 1)]
    /\ c' = 0
    /\ i' = 0
    /\ coordPc' = "assign"
    /\ UNCHANGED telVars
    /\ UNCHANGED <<n, m, proc, mainPc, accepted, connPc, connMsg, connSent,
                   chanToCoordinator, chanClosed, wg, wg_done, nodeInfos,
                   committeeInfos, iCommittee, lastCommittee, checkTotalF, msg,
                   bcast>>

\* one iteration of the assignment loop (315-348)
\* the committee index after the "if i != 0 && i%npm == 0" block
NextC(ii, cc) ==
    IF ii # 0 /\ ii % npm = 0 /\ ii # n - rest THEN cc + 1 ELSE cc

\* t_npm after the same block
TNpm(ii) ==
    IF ii # 0 /\ ii % npm = 0 /\ ii = n - rest THEN npm + rest ELSE npm

\* nodeInfos[i].IsHonest as set by lines 343-347
IsHonestAt(ii, cc) ==
    ~ (TNpm(ii) = 0 \/ ii % TNpm(ii) < AdvCount(TNpm(ii), cc))

CoordAssign ==
    /\ Running /\ coordPc = "assign"
    /\ IF i >= n
       THEN /\ coordPc' = "count"
            /\ lastCommittee' = committees[1]
            /\ committeeInfos' = [k \in 1..m |-> ZeroCommitteeInfo]
            /\ iCommittee' = 0
            /\ i' = 0
            /\ UNCHANGED <<proc, c, nodeInfos>>
       ELSE IF NextC(i, c) >= m
       THEN \* committees[c]: index out of range
            /\ proc' = "panic"
            /\ c' = NextC(i, c)
            /\ UNCHANGED <<coordPc, nodeInfos, i, lastCommittee, committeeInfos,
                           iCommittee>>
       ELSE /\ c' = NextC(i, c)
            /\ nodeInfos' = [nodeInfos EXCEPT
                   ![i + 1].CommitteeID = committees[NextC(i, c) + 1],
                   ![i + 1].IsHonest = IsHonestAt(i, NextC(i, c))]
            /\ i' = i + 1
            /\ UNCHANGED <<proc, coordPc, lastCommittee, committeeInfos,
                           iCommittee>>
    /\ UNCHANGED telVars
    /\ UNCHANGED <<n, m, mainPc, accepted, connPc, connMsg, connSent,
                   chanToCoordinator, chanClosed, wg, wg_done, committees,
                   checkTotalF, msg, bcast>>

\* one iteration of the recount loop (354-364)
CoordCount ==
    /\ Running /\ coordPc = "count"
    /\ IF i >= n
       THEN /\ coordPc' = "check"
            /\ i' = 0
            /\ checkTotalF' = 0
            /\ UNCHANGED <<proc, lastCommittee, iCommittee, committeeInfos>>
       ELSE LET changed == nodeInfos[i + 1].CommitteeID # lastCommittee
                ic == IF changed THEN iCommittee + 1 ELSE iCommittee
            IN IF ic >= m
               THEN \* committeeInfos[iCommittee]: index out of range
                    /\ proc' = "panic"
                    /\ UNCHANGED <<coordPc, i, checkTotalF, lastCommittee,
                                   iCommittee, committeeInfos>>
               ELSE /\ lastCommittee' = nodeInfos[i + 1].CommitteeID
                    /\ iCommittee' = ic
                    /\ committeeInfos' = [committeeInfos EXCEPT
                           ![ic + 1].id = nodeInfos[i + 1].CommitteeID,
                           ![ic + 1].npm = @ + 1,
                           ![ic + 1].f = IF nodeInfos[i + 1].IsHonest
                                         THEN @ ELSE @ + 1]
                    /\ i' = i + 1
                    /\ UNCHANGED <<proc, coordPc, checkTotalF>>
    /\ UNCHANGED telVars
    /\ UNCHANGED <<n, m, mainPc, accepted, connPc, connMsg, connSent,
                   chanToCoordinator, chanClosed, wg, wg_done, nodeInfos,
                   committees, c, msg, bcast>>

\* the two log.Fatal conditions of the invariant loop (374 and 378)
SizeWrong(ci) == ci.npm # npm /\ ci.npm # npm + rest
TooManyAdversaries(ci) == ci.f >= CeilDiv(ci.npm, committeeF)

\* one iteration of the invariant loop (373-383)
CoordCheck ==
    /\ Running /\ coordPc = "check"
    /\ IF i >= Len(committeeInfos)
       THEN /\ coordPc' = "total"
            /\ UNCHANGED <<proc, i, checkTotalF>>
       ELSE IF SizeWrong(committeeInfos[i + 1])
               \/ TooManyAdversaries(committeeInfos[i + 1])
       THEN /\ proc' = "fatal"
            /\ UNCHANGED <<coordPc, i, checkTotalF>>
       ELSE /\ checkTotalF' = checkTotalF + committeeInfos[i + 1].f
            /\ i' = i + 1
            /\ UNCHANGED <<proc, coordPc>>
    /\ UNCHANGED telVars
    /\ UNCHANGED <<n, m, mainPc, accepted, connPc, connMsg, connSent,
                   chanToCoordinator, chanClosed, wg, wg_done, nodeInfos,
                   committees, c, committeeInfos, iCommittee, lastCommittee,
                   msg, bcast>>

\* if flagArgs.n/flagArgs.m != 1 && int(flagArgs.n)/checkTotalF < 1/int(flagArgs.totalF)
\* (385-387): && short-circuits; the division by checkTotalF faults on zero
CoordTotal ==
    /\ Running /\ coordPc = "total"
    /\ IF n \div m = 1
       THEN coordPc' = "build" /\ UNCHANGED proc
       ELSE IF checkTotalF = 0
       THEN proc' = "panic" /\ UNCHANGED coordPc
       ELSE IF n \div checkTotalF < 1 \div totalF
       THEN proc' = "fatal" /\ UNCHANGED coordPc
       ELSE coordPc' = "build" /\ UNCHANGED proc
    /\ UNCHANGED telVars
    /\ UNCHANGED <<n, m, mainPc, accepted, connPc, connMsg, connSent,
                   chanToCoordinator, chanClosed, wg, wg_done, nodeInfos,
                   committees, i, c, committeeInfos, iCommittee, lastCommittee,
                   checkTotalF, msg, bcast>>

\* msg := ResponseToNodes{nodeInfos, genesisBlocks, ..., rBlock} (391-417):
\* the tagged list and, per committee of committeeInfos, its members
Members(id) == {nodeInfos[k].Pub : k \in {j \in 1..n : nodeInfos[j].CommitteeID = id}}

CoordBuild ==
    /\ Running /\ coordPc = "build"
    /\ msg' = [nodeInfos |-> nodeInfos,
               rBlock |-> [id \in {committeeInfos[k].id : k \in 1..m} |-> Members(id)]]
    /\ bcast' = 0
    /\ coordPc' = "broadcast"
    /\ UNCHANGED telVars
    /\ UNCHANGED <<n, m, proc, mainPc, accepted, connPc, connMsg, connSent,
                   chanToCoordinator, chanClosed, wg, wg_done, nodeInfos,
                   committees, i, c, committeeInfos, iCommittee, lastCommittee,
                   checkTotalF>>

\* for _, c := range chanToNodes { c <- msg } (419-421): chanToNodes[bcast] is
\* unbuffered, so the send completes together with the receive
\* "returnMessage := <-chanFromCoordinator" of the handler that owns it (269)
CoordSend ==
    /\ Running /\ coordPc = "broadcast"
    /\ IF bcast >= n
       THEN /\ coordPc' = "txGenerator"
            /\ UNCHANGED <<connPc, connMsg, bcast>>
       ELSE /\ connPc[bcast + 1] = "recv"
            /\ connMsg' = [connMsg EXCEPT ![bcast + 1] = msg]
            /\ connPc' = [connPc EXCEPT ![bcast + 1] = "encode"]
            /\ bcast' = bcast + 1
            /\ UNCHANGED coordPc
    /\ UNCHANGED telVars
    /\ UNCHANGED <<n, m, proc, mainPc, accepted, connSent, chanToCoordinator,
                   chanClosed, wg, wg_done, nodeInfos, committees, i, c,
                   committeeInfos, iCommittee, lastCommittee, checkTotalF, msg>>

\* ====================================================== telemetry phase
Handlers == 1..MaxHandlers

\* 32-byte transaction / broadcast ids and intermediary committee ids carried
\* by the reports
TxIds == {1}
HopIds == {1}

\* the zero time.Time (IsZero() is true for it alone)
ZeroTime == 0

\* t.Unix(): seconds since 1970-01-01.  Model time counts seconds from
\* the zero time; UnixEpoch is the tick of 1970-01-01 (62135596800 in Go,
\* scaled down to TLC's integer range)
UnixEpoch == 1000
Unix(t) == t - UnixEpoch

\* strconv.FormatInt(x, 10)
FormatInt(x) == ToString(x)

\* the timestamps the report accepted as connection h may carry: the zero
\* time, or a time of its own after 1970 (reports of distinct connections
\* differ)
TimesOf(h) == {ZeroTime, UnixEpoch + h}

Nil == "nil"

\* new(routetxresults), new(IDAGossipResults): zero-valued records; mux = 0
\* is an unlocked sync.Mutex, mux = h one locked by handler h
NewRouteTxResults == [start |-> ZeroTime, end |-> ZeroTime, committees |-> Nil, mux |-> 0]
NewIDAGossipResults == [start |-> ZeroTime, reconstructed |-> <<>>, mux |-> 0]

\* prepareResultString (426-432): the line is the write time, then s
prepareResultString(str) == <<"time.Now().Unix()">> \o str

TelRunning == Running /\ mainPc = "debug"

\* the first step of each dispatch branch of the switch (459-573)
FirstPc(typ) ==
    CASE typ \in {"routetx", "find_node", "transaction_recieved"} -> "rmap_add"
      [] typ \in {"start_ida_gossip", "reconstructed_ida_gossip"} -> "ida_add"

\* launchCoordinator's debug loop accepts a connection and starts its
\* handler, which receives a Msg of type typ (237-243, 457-459)
DebugAccept(typ) ==
    /\ TelRunning /\ spawned < MaxHandlers
    /\ \E id \in TxIds, cid \in HopIds, t \in TimesOf(spawned + 1) :
           hMsg' = [hMsg EXCEPT ![spawned + 1] =
                       [Typ |-> typ, id |-> id, cID |-> cid, T |-> t]]
    /\ hPc' = [hPc EXCEPT ![spawned + 1] = FirstPc(typ)]
    /\ spawned' = spawned + 1
    /\ UNCHANGED bootVars
    /\ UNCHANGED <<hOk, hS, rMap, rMapMux, idaresults, idaMux, files, rAcq, idaAcq, finalBlockChan>>

AcceptRouteTx == DebugAccept("routetx")
AcceptFindNode == DebugAccept("find_node")
AcceptTransactionRecieved == DebugAccept("transaction_recieved")
AcceptStartIdaGossip == DebugAccept("start_ida_gossip")
AcceptReconstructedIdaGossip == DebugAccept("reconstructed_ida_gossip")

\* sync.Mutex.Lock on a mutex whose holder field is mu: blocks until free
CanLock(mu) == mu = 0

\* (mutant of RMapAfterAdd: the nil test dropped, a new record every call)
RMapAfterAddAlways(mp, ID) ==
    [x \in DOMAIN mp \cup {ID} |-> IF x = ID THEN NewRouteTxResults ELSE mp[x]]

\* --- routetxmap.add (89-96): Lock, the body and the deferred Unlock; the
\* section runs whenever no other handler is inside a section of rMap.mux
RMapAfterAdd(mp, ID) ==
    IF ID \in DOMAIN mp THEN mp ELSE mp @@ (ID :> NewRouteTxResults)

RMapAdd(h) ==
    /\ TelRunning /\ hPc[h] = "rmap_add"
    /\ CanLock(rMapMux)
    /\ rMap' = RMapAfterAdd(rMap, hMsg[h].id)
    /\ hPc' = [hPc EXCEPT ![h] = "rmap_get"]
    /\ UNCHANGED bootVars
    /\ UNCHANGED <<spawned, hMsg, hOk, hS, rMapMux, idaresults, idaMux, files, rAcq, idaAcq, finalBlockChan>>

\* (mutant of RecordOpPc: the transaction_recieved case calls addStart)
RecordOpPcEndAsStart(typ) ==
    CASE typ = "routetx" -> "addStart_lock"
      [] typ = "find_node" -> "add_lock"
      [] typ = "transaction_recieved" -> "addStart_lock"

\* r := rMap.get(ID) is the record of hMsg[h].id; the next step is the
\* record operation of the handler's branch
RecordOpPc(typ) ==
    CASE typ = "routetx" -> "addStart_lock"
      [] typ = "find_node" -> "add_lock"
      [] typ = "transaction_recieved" -> "addEnd_lock"

\* --- routetxmap.get (98-102): Lock, the lookup and the deferred Unlock;
\* a nil result faults at the method call that follows (490, 498, 505)
RMapGet(h) ==
    /\ TelRunning /\ hPc[h] = "rmap_get"
    /\ CanLock(rMapMux)
    /\ IF hMsg[h].id \in DOMAIN rMap
       THEN /\ hPc' = [hPc EXCEPT ![h] = RecordOpPc(hMsg[h].Typ)]
            /\ proc' = proc
       ELSE /\ hPc' = [hPc EXCEPT ![h] = "nil_record"]
            /\ proc' = "panic"
    /\ UNCHANGED <<n, m, mainPc, accepted, connPc, connMsg, connSent,
                   chanToCoordinator, chanClosed, wg, wg_done, coordPc, nodeInfos,
                   committees, i, c, committeeInfos, iCommittee, lastCommittee,
                   checkTotalF, msg, bcast>>
    /\ UNCHANGED <<spawned, hMsg, hOk, hS, rMap, rMapMux, idaresults, idaMux, files, rAcq, idaAcq, finalBlockChan>>

\* r.mux.Lock() at the head of addStart, add and addEnd (51, 64, 75)
RecordLock(h, op) ==
    /\ TelRunning /\ hPc[h] = op \o "_lock"
    /\ CanLock(rMap[hMsg[h].id].mux)
    /\ rMap' = [rMap EXCEPT ![hMsg[h].id].mux = h]
    /\ rAcq' = [rAcq EXCEPT ![hMsg[h].id][op] = IF @ = 0 THEN h ELSE @]
    /\ hPc' = [hPc EXCEPT ![h] = op]
    /\ UNCHANGED bootVars
    /\ UNCHANGED <<spawned, hMsg, hOk, hS, rMapMux, idaresults, idaMux, files, idaAcq, finalBlockChan>>

AddStartLock(h) == RecordLock(h, "addStart")
AddLock(h) == RecordLock(h, "add")
AddEndLock(h) == RecordLock(h, "addEnd")

\* --- routetxresults.addStart (63-71), body and deferred Unlock
\* (mutant of StartAfter: the IsZero test dropped)
StartAfterOverwrite(r, tim) == tim

StartAfter(r, tim) == IF r.start = ZeroTime THEN tim ELSE r.start
StartOk(r, tim) == r.start = ZeroTime

AddStart(h) ==
    /\ TelRunning /\ hPc[h] = "addStart"
    /\ LET r == rMap[hMsg[h].id] IN
          /\ rMap' = [rMap EXCEPT ![hMsg[h].id].start = StartAfter(r, hMsg[h].T),
                                  ![hMsg[h].id].mux = 0]
          /\ hOk' = [hOk EXCEPT ![h] = StartOk(r, hMsg[h].T)]
    /\ hPc' = [hPc EXCEPT ![h] = "returned"]
    /\ UNCHANGED bootVars
    /\ UNCHANGED <<spawned, hMsg, hS, rMapMux, idaresults, idaMux, files, rAcq, idaAcq, finalBlockChan>>

\* --- routetxresults.add (50-60), body and deferred Unlock.  With
\* r.committees == nil it calls r.init() (41-47), whose first statement is
\* r.mux.Lock() on the mutex add still holds: sync.Mutex is not reentrant,
\* so the handler stays at "init_lock" with the mutex held
Add(h) ==
    /\ TelRunning /\ hPc[h] = "add"
    /\ LET r == rMap[hMsg[h].id] IN
          IF r.committees = Nil
          THEN /\ hPc' = [hPc EXCEPT ![h] = "init_lock"]
               /\ UNCHANGED <<rMap, hOk>>
          ELSE IF hMsg[h].cID \in DOMAIN r.committees
          THEN /\ rMap' = [rMap EXCEPT ![hMsg[h].id].mux = 0]
               /\ hOk' = [hOk EXCEPT ![h] = FALSE]
               /\ hPc' = [hPc EXCEPT ![h] = "returned"]
          ELSE /\ rMap' = [rMap EXCEPT
                      ![hMsg[h].id].committees = @ @@ (hMsg[h].cID :> hMsg[h].T),
                      ![hMsg[h].id].mux = 0]
               /\ hOk' = [hOk EXCEPT ![h] = TRUE]
               /\ hPc' = [hPc EXCEPT ![h] = "returned"]
    /\ UNCHANGED bootVars
    /\ UNCHANGED <<spawned, hMsg, hS, rMapMux, idaresults, idaMux, files, rAcq, idaAcq, finalBlockChan>>

\* --- routetxresults.addEnd (74-82), body and deferred Unlock, then the
\* "if ok" of the transaction_recieved branch (506)
EndAfter(r, tim) == IF r.end = ZeroTime THEN tim ELSE r.end
\* (mutant of EndOk: every call reports success)
EndOkAlways(r, tim) == TRUE

EndOk(r, tim) == r.end = ZeroTime

AddEnd(h) ==
    /\ TelRunning /\ hPc[h] = "addEnd"
    /\ LET r == rMap[hMsg[h].id] IN
          /\ rMap' = [rMap EXCEPT ![hMsg[h].id].end = EndAfter(r, hMsg[h].T),
                                  ![hMsg[h].id].mux = 0]
          /\ hOk' = [hOk EXCEPT ![h] = EndOk(r, hMsg[h].T)]
          /\ hPc' = [hPc EXCEPT ![h] = IF EndOk(r, hMsg[h].T)
                                       THEN "route_serialize" ELSE "returned"]
    /\ UNCHANGED bootVars
    /\ UNCHANGED <<spawned, hMsg, hS, rMapMux, idaresults, idaMux, files, rAcq, idaAcq, finalBlockChan>>

\* --- the serialisation of the record after the settling delay (508-522);
\* r.start, r.end and r.committees are read without r.mux
StartField(r) == IF r.start = ZeroTime THEN "0" ELSE FormatInt(Unix(r.start))

\* bytes32ToString(cID)
bytes32ToString(b) == ToString(b)

\* "for cID, tStamp := range r.committees": a nil map yields nothing, a map
\* yields its pairs in an order the runtime chooses
HopFields(cs) ==
    IF cs = Nil THEN {<<>>}
    ELSE {[j \in 1..(2 * Cardinality(DOMAIN cs)) |->
              IF j % 2 = 1 THEN bytes32ToString(ord[(j + 1) \div 2])
              ELSE FormatInt(Unix(cs[ord[j \div 2]]))] :
          ord \in {o \in [1..Cardinality(DOMAIN cs) -> DOMAIN cs] :
                      \A x \in DOMAIN cs : \E j \in DOMAIN o : o[j] = x}}

RouteLines(r) ==
    {<<StartField(r), FormatInt(Unix(r.end))>> \o hops : hops \in HopFields(r.committees)}

RouteSerialize(h) ==
    /\ TelRunning /\ hPc[h] = "route_serialize"
    /\ \E ln \in RouteLines(rMap[hMsg[h].id]) : hS' = [hS EXCEPT ![h] = ln]
    /\ hPc' = [hPc EXCEPT ![h] = "route_write"]
    /\ UNCHANGED bootVars
    /\ UNCHANGED <<spawned, hMsg, hOk, rMap, rMapMux, idaresults, idaMux, files, rAcq, idaAcq, finalBlockChan>>

\* writeStringToFile(s, files[3]) (523); by: the handler writing (history)
RouteWrite(h) ==
    /\ TelRunning /\ hPc[h] = "route_write"
    /\ files' = [files EXCEPT ![3] = Append(@, [by |-> h, line |-> prepareResultString(hS[h])])]
    /\ hPc' = [hPc EXCEPT ![h] = "returned"]
    /\ UNCHANGED bootVars
    /\ UNCHANGED <<spawned, hMsg, hOk, hS, rMap, rMapMux, idaresults, idaMux, rAcq, idaAcq, finalBlockChan>>

\* --- IDAGossipResultsMap.add (109-117): Lock, the body and the deferred
\* Unlock
IdaAfterAdd(mp, ID) ==
    IF ID \in DOMAIN mp THEN mp ELSE mp @@ (ID :> NewIDAGossipResults)

IdaAdd(h) ==
    /\ TelRunning /\ hPc[h] = "ida_add"
    /\ CanLock(idaMux)
    /\ idaresults' = IdaAfterAdd(idaresults, hMsg[h].id)
    /\ hPc' = [hPc EXCEPT ![h] = "ida_get"]
    /\ UNCHANGED bootVars
    /\ UNCHANGED <<spawned, hMsg, hOk, hS, rMap, rMapMux, idaMux, files, rAcq, idaAcq, finalBlockChan>>

IdaOpPc(typ) ==
    CASE typ = "start_ida_gossip" -> "ida_start"
      [] typ = "reconstructed_ida_gossip" -> "addReconstructed_lock"

\* --- IDAGossipResultsMap.get (119-123): Lock, the lookup and the
\* deferred Unlock; a nil result faults at the use that follows (531, 539)
IdaGet(h) ==
    /\ TelRunning /\ hPc[h] = "ida_get"
    /\ CanLock(idaMux)
    /\ IF hMsg[h].id \in DOMAIN idaresults
       THEN /\ hPc' = [hPc EXCEPT ![h] = IdaOpPc(hMsg[h].Typ)]
            /\ proc' = proc
       ELSE /\ hPc' = [hPc EXCEPT ![h] = "nil_record"]
            /\ proc' = "panic"
    /\ UNCHANGED <<n, m, mainPc, accepted, connPc, connMsg, connSent,
                   chanToCoordinator, chanClosed, wg, wg_done, coordPc, nodeInfos,
                   committees, i, c, committeeInfos, iCommittee, lastCommittee,
                   checkTotalF, msg, bcast>>
    /\ UNCHANGED <<spawned, hMsg, hOk, hS, rMap, rMapMux, idaresults, idaMux, files, rAcq, idaAcq, finalBlockChan>>

\* --- start_ida_gossip: "ida.start = bat.T" (531), written without ida.mux
IdaStartAfter(ida, tim) == tim

IdaStart(h) ==
    /\ TelRunning /\ hPc[h] = "ida_start"
    /\ idaresults' = [idaresults EXCEPT
           ![hMsg[h].id].start = IdaStartAfter(idaresults[hMsg[h].id], hMsg[h].T)]
    /\ hPc' = [hPc EXCEPT ![h] = "returned"]
    /\ UNCHANGED bootVars
    /\ UNCHANGED <<spawned, hMsg, hOk, hS, rMap, rMapMux, idaMux, files, rAcq, idaAcq, finalBlockChan>>

\* ida.mux.Lock() in addReconstructed (134) and before the serialisation (544)
IdaRecordLock(h, op) ==
    /\ TelRunning /\ hPc[h] = op \o "_lock"
    /\ CanLock(idaresults[hMsg[h].id].mux)
    /\ idaresults' = [idaresults EXCEPT ![hMsg[h].id].mux = h]
    /\ idaAcq' = [idaAcq EXCEPT ![hMsg[h].id] = Append(@, [h |-> h, op |-> op])]
    /\ hPc' = [hPc EXCEPT ![h] = op]
    /\ UNCHANGED bootVars
    /\ UNCHANGED <<spawned, hMsg, hOk, hS, rMap, rMapMux, idaMux, files, rAcq, finalBlockChan>>

AddReconstructedLock(h) == IdaRecordLock(h, "addReconstructed")
IdaFlushLock(h) == IdaRecordLock(h, "ida_flush")

\* --- IDAGossipResults.addReconstructed (133-143), body and deferred
\* Unlock, then the "if ok" of the reconstructed_ida_gossip branch (541)
\* (mutant of ReconstructedAfter: later timestamps are put in front)
ReconstructedAfterPrepend(ida, tim) == <<tim>> \o ida.reconstructed

ReconstructedAfter(ida, tim) ==
    IF Len(ida.reconstructed) = 0 THEN <<tim>> ELSE Append(ida.reconstructed, tim)
\* (mutant of ReconstructedOk: every append reports "first")
ReconstructedOkAlways(ida) == TRUE

ReconstructedOk(ida) == Len(ida.reconstructed) = 0

AddReconstructed(h) ==
    /\ TelRunning /\ hPc[h] = "addReconstructed"
    /\ LET ida == idaresults[hMsg[h].id] IN
          /\ idaresults' = [idaresults EXCEPT
                 ![hMsg[h].id].reconstructed = ReconstructedAfter(ida, hMsg[h].T),
                 ![hMsg[h].id].mux = 0]
          /\ hOk' = [hOk EXCEPT ![h] = ReconstructedOk(ida)]
          /\ hPc' = [hPc EXCEPT ![h] = IF ReconstructedOk(ida)
                                       THEN "ida_flush_lock" ELSE "returned"]
    /\ UNCHANGED bootVars
    /\ UNCHANGED <<spawned, hMsg, hS, rMap, rMapMux, idaMux, files, rAcq, idaAcq, finalBlockChan>>

\* --- the serialisation under ida.mux (546-551): start, then the list
IdaLine(ida) ==
    <<FormatInt(Unix(ida.start))>>
        \o [j \in 1..Len(ida.reconstructed) |-> FormatInt(Unix(ida.reconstructed[j]))]

IdaFlush(h) ==
    /\ TelRunning /\ hPc[h] = "ida_flush"
    /\ hS' = [hS EXCEPT ![h] = IdaLine(idaresults[hMsg[h].id])]
    /\ idaresults' = [idaresults EXCEPT ![hMsg[h].id].mux = 0]
    /\ hPc' = [hPc EXCEPT ![h] = "ida_write"]
    /\ UNCHANGED bootVars
    /\ UNCHANGED <<spawned, hMsg, hOk, rMap, rMapMux, idaMux, files, rAcq, idaAcq, finalBlockChan>>

\* writeStringToFile(s, files[4]) (552); by: the handler writing (history)
IdaWrite(h) ==
    /\ TelRunning /\ hPc[h] = "ida_write"
    /\ files' = [files EXCEPT ![4] = Append(@, [by |-> h, line |-> prepareResultString(hS[h])])]
    /\ hPc' = [hPc EXCEPT ![h] = "returned"]
    /\ UNCHANGED bootVars
    /\ UNCHANGED <<spawned, hMsg, hOk, hS, rMap, rMapMux, idaresults, idaMux, rAcq, idaAcq, finalBlockChan>>

\* ------------------------------------------------ bootstrap specifications
\* launchCoordinator after "go coordinator(...)" (145-202), for any
\* flagArgs.n >= flagArgs.m > 0
\* no debug connection is accepted before the bootstrap completes; the two
\* stores are created empty (230-234) and the result files are new (180-192)
InitTelVars ==
    /\ spawned = 0
    /\ hPc = [h \in Handlers |-> "unborn"]
    /\ hMsg = [h \in Handlers |-> NoMsg]
    /\ hOk = [h \in Handlers |-> FALSE]
    /\ hS = [h \in Handlers |-> <<>>]
    /\ rMap = <<>> /\ rMapMux = 0
    /\ idaresults = <<>> /\ idaMux = 0
    /\ files = [f \in 0..5 |-> <<>>]
    /\ rAcq = [id \in TxIds |-> [op \in {"addStart", "add", "addEnd"} |-> 0]]
    /\ idaAcq = [id \in TxIds |-> <<>>]
    /\ finalBlockChan = <<>>

InitBoot ==
    /\ n \in 1..MaxConn /\ m \in 1..n
    /\ proc = "running"
    /\ mainPc = "accept" /\ accepted = 0
    /\ connPc = [k \in 1..n |-> "unborn"]
    /\ connMsg = [k \in 1..n |-> NoMsg]
    /\ connSent = [k \in 1..n |-> 0]
    /\ chanToCoordinator = <<>> /\ chanClosed = FALSE
    /\ wg = n /\ wg_done = n
    /\ coordPc = "wait"
    /\ nodeInfos = <<>> /\ committees = <<>>
    /\ i = 0 /\ c = 0
    /\ committeeInfos = <<>> /\ iCommittee = 0 /\ lastCommittee = ZeroID
    /\ checkTotalF = 0
    /\ msg = NoMsg /\ bcast = 0
    /\ InitTelVars

NextBoot ==
    \/ MainAccept
    \/ MainWaitDone
    \/ \E k \in Conns : ConnDecode(k)
    \/ \E k \in Conns : ConnPublish(k)
    \/ \E k \in Conns : ConnWgDone(k)
    \/ \E k \in Conns : ConnEncode(k)
    \/ \E k \in Conns : ConnSignalDone(k)
    \/ CoordWait
    \/ CoordClose
    \/ CoordDrain
    \/ CoordShuffle
    \/ CoordCommittees
    \/ CoordAssign
    \/ CoordCount
    \/ CoordCheck
    \/ CoordTotal
    \/ CoordBuild
    \/ CoordSend

SpecBoot == InitBoot /\ [][NextBoot]_vars

\* The assignment and verification passes alone, for larger n: the state of
\* coordinator() after the shuffle (301), every handler waiting for its
\* response and launchCoordinator waiting on wg_done
InitAssign ==
    /\ n \in 1..MaxN /\ m \in 1..n
    /\ proc = "running"
    /\ mainPc = "wait_done" /\ accepted = n
    /\ connPc = [k \in 1..n |-> "recv"]
    /\ connMsg = [k \in 1..n |-> NoMsg]
    /\ connSent = [k \in 1..n |-> 0]
    /\ chanToCoordinator = <<>> /\ chanClosed = TRUE
    /\ wg = 0 /\ wg_done = n
    /\ coordPc = "committees"
    /\ nodeInfos = [k \in 1..n |-> [ZeroNode EXCEPT !.Pub = k]]
    /\ committees = <<>>
    /\ i = n /\ c = 0
    /\ committeeInfos = <<>> /\ iCommittee = 0 /\ lastCommittee = ZeroID
    /\ checkTotalF = 0
    /\ msg = NoMsg /\ bcast = 0
    /\ InitTelVars

NextAssign ==
    \/ CoordCommittees
    \/ CoordAssign
    \/ CoordCount
    \/ CoordCheck
    \/ CoordTotal

SpecAssign == InitAssign /\ [][NextAssign]_vars

\* ------------------------------------------------ telemetry specifications
\* The state in which launchCoordinator enters the debug loop (237) after a
\* bootstrap with flagArgs.n = flagArgs.m = 1
InitTel ==
    /\ n = 1 /\ m = 1
    /\ proc = "running"
    /\ mainPc = "debug" /\ accepted = 1
    /\ connPc = <<"returned">>
    /\ connSent = <<1>>
    /\ chanToCoordinator = <<>> /\ chanClosed = TRUE
    /\ wg = 0 /\ wg_done = 0
    /\ coordPc = "txGenerator"
    /\ nodeInfos = <<[Pub |-> 1, CommitteeID |-> CommitteeDigest(0), IsHonest |-> TRUE]>>
    /\ committees = <<CommitteeDigest(0)>>
    /\ i = 1 /\ c = 0
    /\ committeeInfos = <<[id |-> CommitteeDigest(0), npm |-> 1, f |-> 0]>>
    /\ iCommittee = 0 /\ lastCommittee = CommitteeDigest(0)
    /\ checkTotalF = 0
    /\ msg = [nodeInfos |-> nodeInfos, rBlock |-> (CommitteeDigest(0) :> {1})]
    /\ connMsg = <<msg>>
    /\ bcast = 1
    /\ InitTelVars

NextRoute ==
    \/ AcceptRouteTx
    \/ AcceptFindNode
    \/ AcceptTransactionRecieved
    \/ \E h \in Handlers : RMapAdd(h)
    \/ \E h \in Handlers : RMapGet(h)
    \/ \E h \in Handlers : AddStartLock(h)
    \/ \E h \in Handlers : AddStart(h)
    \/ \E h \in Handlers : AddLock(h)
    \/ \E h \in Handlers : Add(h)
    \/ \E h \in Handlers : AddEndLock(h)
    \/ \E h \in Handlers : AddEnd(h)
    \/ \E h \in Handlers : RouteSerialize(h)
    \/ \E h \in Handlers : RouteWrite(h)

SpecRoute == InitTel /\ [][NextRoute]_vars

NextIda ==
    \/ AcceptStartIdaGossip
    \/ AcceptReconstructedIdaGossip
    \/ \E h \in Handlers : IdaAdd(h)
    \/ \E h \in Handlers : IdaGet(h)
    \/ \E h \in Handlers : IdaStart(h)
    \/ \E h \in Handlers : AddReconstructedLock(h)
    \/ \E h \in Handlers : AddReconstructed(h)
    \/ \E h \in Handlers : IdaFlushLock(h)
    \/ \E h \in Handlers : IdaFlush(h)
    \/ \E h \in Handlers : IdaWrite(h)

SpecIda == InitTel /\ [][NextIda]_vars

\* ================================================================ claims
\* coordinator() is past the assignment loop (315-348)
Assigned == coordPc \in {"count", "check", "total", "build", "broadcast", "txGenerator"}

\* the nodes tagged with committee k (0-based) and the adversarial ones
InCommittee(k) == {j \in 1..n : nodeInfos[j].CommitteeID = committees[k + 1]}
AdversariesIn(k) == {j \in InCommittee(k) : ~ nodeInfos[j].IsHonest}

\* C1: for all n >= m > 0 the assignment pass completes (no runtime fault
\* while assigning) and tags every node with one of the m committee ids so
\* that every committee has floor(n/m) nodes, except the last, which has
\* floor(n/m) + (n mod m)
C1_PartitionSizes ==
    /\ coordPc = "assign" => proc # "panic"
    /\ Assigned =>
          /\ \A j \in 1..n : \E k \in 0..(m - 1) : nodeInfos[j].CommitteeID = committees[k + 1]
          /\ \A k \in 0..(m - 1) :
                Cardinality(InCommittee(k)) = IF k = m - 1 THEN npm + rest ELSE npm

\* C2: in the tagged list every committee, the remainder-absorbing one
\* included, has strictly fewer adversarial nodes than
\* ceil(committeeSize / committeeF)
C2_CommitteeAdversaryBound ==
    Assigned =>
        \A k \in 0..(m - 1) :
            Cardinality(AdversariesIn(k)) < CeilDiv(Cardinality(InCommittee(k)), committeeF)

\* ------------------------------------------------------- route-tx tracker
\* the handlers accepted so far with a report of type typ for record id
Reports(typ, id) ==
    {h \in 1..spawned : hMsg[h].Typ = typ /\ hMsg[h].id = id}
Returned(typ, id) == {h \in Reports(typ, id) : hPc[h] = "returned"}

\* C3: markHop is idempotent per (id, committeeId): a find_node handler
\* that has entered routetxresults.add is never left waiting for the record
\* mutex it holds itself (so both calls can return), and once a call has
\* returned the stored hop time of its committee is the time given by the
\* first call that acquired the record lock
C3_MarkHopIdempotent ==
    \A h \in 1..spawned :
        hMsg[h].Typ = "find_node" =>
            /\ hPc[h] = "init_lock" => rMap[hMsg[h].id].mux # h
            /\ hPc[h] = "returned" =>
                  /\ rMap[hMsg[h].id].committees # Nil
                  /\ rMap[hMsg[h].id].committees[hMsg[h].cID]
                         = hMsg[rAcq[hMsg[h].id]["add"]].T

\* first-write-wins for the calls of one operation on record id: the call
\* that acquired the record lock first returned true and its timestamp is
\* the stored one; every other call that has returned returned false
FirstWins(typ, op, id, stored) ==
    \A h \in Returned(typ, id) :
        /\ hOk[h] = (h = rAcq[id][op])
        /\ hPc[rAcq[id][op]] = "returned" => stored = hMsg[rAcq[id][op]].T

NonZero(typ, id) == \A h \in Reports(typ, id) : hMsg[h].T # ZeroTime

RouteLinesOf(id) == {j \in 1..Len(files[3]) : hMsg[files[3][j].by].id = id}

\* exactly-once flush of record id: only the first markEnd call to acquire
\* the lock writes, once, and it has written by the time it returns
FlushedOnce(id) ==
    /\ Cardinality(RouteLinesOf(id)) <= 1
    /\ \A j \in RouteLinesOf(id) : files[3][j].by = rAcq[id]["addEnd"]
    /\ \A h \in Returned("transaction_recieved", id) :
           h = rAcq[id]["addEnd"] => Cardinality(RouteLinesOf(id)) = 1

C6_IdaStartFirstWins ==
    [][\A id \in DOMAIN idaresults :
           (idaresults[id].start # ZeroTime /\ idaresults'[id].start # ZeroTime)
               => idaresults'[id].start = idaresults[id].start]_vars

\* the addReconstructed calls on record id, in the order they acquired
\* ida.mux, and those of them whose body has run
ReconstructedCalls(id) ==
    SelectSeq(idaAcq[id], LAMBDA e : e.op = "addReconstructed")
CompletedCalls(id) ==
    SelectSeq(ReconstructedCalls(id), LAMBDA e : hPc[e.h] # "addReconstructed")

\* C7: after k appendReconstructed calls on an id, in any interleaving, the
\* stored list has exactly k entries, in the order the calls acquired the
\* record lock, and exactly the first call returned true
C7_ReconstructedInLockOrder ==
    \A id \in DOMAIN idaresults :
        LET calls == CompletedCalls(id) IN
            /\ Len(idaresults[id].reconstructed) = Len(calls)
            /\ \A j \in 1..Len(calls) :
                  /\ idaresults[id].reconstructed[j] = hMsg[calls[j].h].T
                  /\ hOk[calls[j].h] = (j = 1)

\* three calls completed, and not in the order the reports were accepted
C7_Witness ==
    /\ 1 \in DOMAIN idaresults
    /\ Len(idaresults[1].reconstructed) = 3
    /\ Len(CompletedCalls(1)) = 3
    /\ CompletedCalls(1)[1].h = 3
    /\ idaresults[1].reconstructed[1] = hMsg[3].T

\* the lines of files[4] written for record id
IdaLinesOf(id) == {j \in 1..Len(files[4]) : hMsg[files[4][j].by].id = id}

\* the fields a flush of record ida must produce: the decimal Unix time of
\* its start, then that of each list entry in stored order
StartThenList(ida) ==
    <<ToString(ida.start - UnixEpoch)>>
        \o [j \in 1..Len(ida.reconstructed) |-> ToString(ida.reconstructed[j] - UnixEpoch)]

\* at most one line per record, written by the handler of the first
\* reconstructed_ida_gossip report, holding a start field and then a
\* non-empty prefix of the stored list
IdaFlushedOnce ==
    \A id \in DOMAIN idaresults :
        /\ Cardinality(IdaLinesOf(id)) <= 1
        /\ \A j \in IdaLinesOf(id) :
              LET ln == files[4][j].line
                  full == StartThenList(idaresults[id])
              IN /\ files[4][j].by = ReconstructedCalls(id)[1].h
                 /\ Len(ln) >= 3 /\ Len(ln) <= Len(full) + 1
                 /\ \A x \in 3..Len(ln) : ln[x] = full[x - 1]
        /\ \A h \in 1..spawned :
              (hMsg[h].id = id /\ hPc[h] = "returned" /\ hOk[h]
                  /\ hMsg[h].Typ = "reconstructed_ida_gossip")
                  => Cardinality(IdaLinesOf(id)) = 1

\* the serialisation step takes the record's start and whole list as they
\* are at that moment, and the write appends exactly what was serialised
IdaFlushTakesRecord ==
    \A h \in Handlers :
        /\ (hPc[h] = "ida_flush" /\ hPc'[h] = "ida_write")
               => hS'[h] = StartThenList(idaresults[hMsg[h].id])
        /\ (hPc[h] = "ida_write" /\ hPc'[h] = "returned")
               => /\ Len(files'[4]) = Len(files[4]) + 1
                  /\ files'[4][Len(files'[4])].line = <<"time.Now().Unix()">> \o hS[h]

\* C8: a record is flushed to files[4] exactly once, by the handler of the
\* first reconstructed_ida_gossip report; the line is the record's start
\* followed by every timestamp of the list at the moment of the flush, in
\* stored order; later reports cause no further write
C8_IdaFlushOnce == []IdaFlushedOnce /\ [][IdaFlushTakesRecord]_vars

\* three reports returned, one line, which holds two reconstruction times
C8_Witness ==
    /\ \A h \in Handlers :
          hPc[h] = "returned" /\ hMsg[h].Typ = "reconstructed_ida_gossip"
    /\ Len(files[4]) = 1
    /\ Len(files[4][1].line) = 4

\* ------------------------------------------------------------- bootstrap
\* C9: every connection is sent exactly one response, the same payload for
\* all, and launchCoordinator does not enter the debug accept loop before
\* all n handlers have encoded their response and signalled wg_done
C9_BroadcastBarrier ==
    /\ \A k \in Conns :
          /\ connSent[k] <= 1
          /\ connSent[k] = 1 => connMsg[k] = msg /\ msg # NoMsg
    /\ mainPc = "debug" =>
          /\ wg_done = 0
          /\ \A k \in Conns : connSent[k] = 1 /\ connPc[k] = "returned"

C9_Witness == mainPc = "debug" /\ n = 3 /\ m = 2

\* C10: the assignment phase starts only after all n handshake handlers
\* have published their pair; no publish blocks (the channel never holds
\* more than n pairs and a handler about to publish finds room); the
\* assigner consumes exactly n pairs, one per accepted connection
C10_RegistryBarrier ==
    /\ Len(chanToCoordinator) <= n
    /\ \A k \in Conns : connPc[k] = "publish" => Len(chanToCoordinator) < n /\ ~ chanClosed
    /\ coordPc # "wait" =>
          \A k \in Conns : connPc[k] \notin {"unborn", "decode", "publish", "wg_done_1"}
    /\ coordPc \notin {"wait", "close", "drain"} =>
          /\ chanToCoordinator = <<>>
          /\ Len(nodeInfos) = n
          /\ \A k \in Conns : Cardinality({j \in 1..n : nodeInfos[j].Pub = k}) = 1

C10_Witness == coordPc = "assign" /\ n = 3 /\ nodeInfos[1].Pub = 2

\* ------------------------------------------------- assignment, continued
\* coordinator() is past the verification pass (350-387)
Verified == coordPc \in {"build", "broadcast", "txGenerator"}

\* the nodes flagged adversarial in the tagged list
Adversaries == {j \in 1..n : ~ nodeInfos[j].IsHonest}

\* C11: whenever bootstrap passes verification, the nodes flagged
\* adversarial across all committees respect the aggregate bound:
\* totalAdversaries / n <= 1 / totalF
C11_TotalAdversaryBound ==
    Verified => totalF * Cardinality(Adversaries) <= n

\* the intra-committee position (0-based) of node j of the tagged list
PositionIn(k, j) == Cardinality({x \in InCommittee(k) : x < j})

\* the adversary count of a committee of size s and index k:
\* floor(s / divisor), one less when s is divisible by the divisor, with
\* divisor 2 for an even index and 6 for an odd one
TargetF(s, k) ==
    LET divisor == IF k % 2 = 0 THEN 2 ELSE 6
    IN IF s % divisor = 0 THEN (s \div divisor) - 1 ELSE s \div divisor

\* C12: in the tagged list, the adversarial nodes of every committee (the
\* remainder-absorbing one included) are exactly its first f nodes by
\* intra-committee position, f computed from the committee's size and the
\* parity of its index
C12_FirstFAdversarial ==
    Assigned =>
        \A k \in 0..(m - 1) : \A j \in InCommittee(k) :
            (~ nodeInfos[j].IsHonest)
                <=> PositionIn(k, j) < TargetF(Cardinality(InCommittee(k)), k)

\* The assignment and verification passes followed by the broadcast, from
\* the state of coordinator() after the shuffle (301)
MaxVerifyN == 6

InitVerify ==
    /\ n \in 1..MaxVerifyN /\ m \in 1..n
    /\ proc = "running"
    /\ mainPc = "wait_done" /\ accepted = n
    /\ connPc = [k \in 1..n |-> "recv"]
    /\ connMsg = [k \in 1..n |-> NoMsg]
    /\ connSent = [k \in 1..n |-> 0]
    /\ chanToCoordinator = <<>> /\ chanClosed = TRUE
    /\ wg = 0 /\ wg_done = n
    /\ coordPc = "committees"
    /\ nodeInfos = [k \in 1..n |-> [ZeroNode EXCEPT !.Pub = k]]
    /\ committees = <<>>
    /\ i = n /\ c = 0
    /\ committeeInfos = <<>> /\ iCommittee = 0 /\ lastCommittee = ZeroID
    /\ checkTotalF = 0
    /\ msg = NoMsg /\ bcast = 0
    /\ InitTelVars

NextVerify ==
    \/ CoordCommittees
    \/ CoordAssign
    \/ CoordCount
    \/ CoordCheck
    \/ CoordTotal
    \/ CoordBuild
    \/ CoordSend
    \/ \E k \in Conns : ConnEncode(k)
    \/ \E k \in Conns : ConnSignalDone(k)
    \/ MainWaitDone

SpecVerify == InitVerify /\ [][NextVerify]_vars

\* the three invariants of the tagged list, recomputed from the list itself
SizeViolated ==
    \E k \in 0..(m - 1) :
        Cardinality(InCommittee(k)) \notin {n \div m, (n \div m) + (n % m)}
CommitteeBoundViolated ==
    \E k \in 0..(m - 1) :
        Cardinality(AdversariesIn(k)) >= CeilDiv(Cardinality(InCommittee(k)), committeeF)
TotalBoundViolated == totalF * Cardinality(Adversaries) > n

\* a bootstrap response has left coordinator() for some connection
ResponseSent == \E k \in Conns : connPc[k] # "recv" \/ connSent[k] > 0

\* C13: when the tagged list violates the size invariant, the
\* per-committee adversary bound or the aggregate adversary bound, the
\* verification pass does not let bootstrap go on: no response is ever sent
C13_VerificationAborts ==
    (Assigned /\ (SizeViolated \/ CommitteeBoundViolated \/ TotalBoundViolated))
        => ~ Verified /\ ~ ResponseSent

\* =========================================================== dispatcher
\* number of debug connections accepted when every message type is explored
MaxDispatch == 2

\* (mutant of CodeTags: the switch without its "pocadd" case)
CodeTagsWithoutPocadd ==
    {"IDASuccess", "consensus", "finalblock", "pocverify", "routetx",
     "find_node", "transaction_recieved", "start_ida_gossip",
     "reconstructed_ida_gossip", "consensus_accept_fail"}

\* the case labels of the switch on msg.Typ (459-570)
CodeTags ==
    {"IDASuccess", "consensus", "finalblock", "pocverify", "pocadd", "routetx",
     "find_node", "transaction_recieved", "start_ida_gossip",
     "reconstructed_ida_gossip", "consensus_accept_fail"}

\* tags a connection may carry that are no case label of the switch
OtherTags == {"transaction_received", "unknown"}

\* --- the consensus_accept_fail payload: "// 32 32 8 8" (561-566)
\* a [32]byte holding the digest x
Bytes32(x) == [j \in 1..32 |-> IF j = 1 THEN x ELSE 0]

\* the k low bytes of x >= 0, least significant first
RECURSIVE LittleEndianBytes(_, _)
LittleEndianBytes(x, k) ==
    IF k = 0 THEN <<>> ELSE <<x % 256>> \o LittleEndianBytes(x \div 256, k - 1)

\* the 8 bytes of an int64 in two's complement, least significant first
PutInt64(x) ==
    IF x >= 0 THEN LittleEndianBytes(x, 8)
    ELSE [j \in 1..8 |-> 255 - LittleEndianBytes(- x - 1, 8)[j]]

\* binary.LittleEndian.Uint64(b)
RECURSIVE Uint64(_)
Uint64(b) == IF b = <<>> THEN 0 ELSE Head(b) + 256 * Uint64(Tail(b))

\* int64(binary.LittleEndian.Uint64(b)): values with the top bit set wrap
\* to negative ones (computed on the complemented bytes)
Int64(b) ==
    IF b[8] >= 128 THEN - (Uint64([j \in 1..8 |-> 255 - b[j]]) + 1) ELSE Uint64(b)

\* the 88 bytes a node sends for (committee, pub, iteration, votes, received)
AcceptFailBytes(cid, pub, iter, totalVotes, rec) ==
    Bytes32(cid) \o Bytes32(pub) \o LittleEndianBytes(iter, 8)
        \o PutInt64(totalVotes) \o PutInt64(rec)

\* the reports explored: field values and payload lengths
AcceptFailFields == {<<1, 2, 0, 3, 2>>, <<2, 1, 258, 300, -1>>}
AcceptFailLengths == {0, 80, 87, 88, 89}

\* b cut or zero-padded to len bytes
Resized(b, len) == [j \in 1..len |-> IF j <= Len(b) THEN b[j] ELSE 0]

AcceptFailPayloads ==
    {Resized(AcceptFailBytes(f[1], f[2], f[3], f[4], f[5]), len) :
        f \in AcceptFailFields, len \in AcceptFailLengths}

\* time.Duration values carried by pocverify and pocadd, in nanoseconds
Durations == {0, 1500}

\* the Msg values explored for connection h: every case label with a
\* payload of its expected type (ok) and with one of another type, and the
\* tags that are no case label
TypedMsg(typ, h) ==
    [Typ |-> typ, ok |-> TRUE, id |-> 1, cID |-> 1, T |-> UnixEpoch + h,
     B |-> <<>>, D |-> 0]

DispatchMsgs(h) ==
    {[TypedMsg(typ, h) EXCEPT !.ok = FALSE] : typ \in CodeTags}
    \cup {TypedMsg(typ, h) : typ \in OtherTags \cup {"IDASuccess", "consensus", "finalblock"}}
    \cup {[TypedMsg(typ, h) EXCEPT !.D = d] : typ \in {"pocverify", "pocadd"}, d \in Durations}
    \cup {[TypedMsg(typ, h) EXCEPT !.id = id, !.cID = cid] :
             typ \in {"routetx", "find_node", "transaction_recieved",
                      "start_ida_gossip", "reconstructed_ida_gossip"},
             id \in TxIds, cid \in HopIds}
    \cup {[TypedMsg("consensus_accept_fail", h) EXCEPT !.B = b] : b \in AcceptFailPayloads}

\* launchCoordinator's debug loop accepts a connection and starts its
\* handler, which receives its Msg (237-243, 457-458)
AcceptMsg ==
    /\ TelRunning /\ spawned < MaxDispatch
    /\ \E mm \in DispatchMsgs(spawned + 1) : hMsg' = [hMsg EXCEPT ![spawned + 1] = mm]
    /\ hPc' = [hPc EXCEPT ![spawned + 1] = "switch"]
    /\ spawned' = spawned + 1
    /\ UNCHANGED bootVars
    /\ UNCHANGED <<hOk, hS, rMap, rMapMux, idaresults, idaMux, files, rAcq, idaAcq, finalBlockChan>>

\* errFatal(err, s): logs and ends the process
errFatal == proc' = "fatal"

\* notOkErr(ok, s): errFatal when the type assertion failed
notOkErr(ok) == IF ok THEN proc' = proc ELSE errFatal

\* the position after the type assertion of each case of the switch
BranchPc(typ) ==
    CASE typ \in {"IDASuccess", "consensus"} -> "returned"
      [] typ = "finalblock" -> "finalblock_send"
      [] typ \in {"pocverify", "pocadd"} -> "poc_write"
      [] typ \in {"routetx", "find_node", "transaction_recieved"} -> "rmap_add"
      [] typ \in {"start_ida_gossip", "reconstructed_ida_gossip"} -> "ida_add"
      [] typ = "consensus_accept_fail" -> "accept_fail_len"

\* switch msg.Typ (459) and the type assertion of the selected case; a tag
\* that is no case label selects default (571-572)
Dispatch(h) ==
    /\ TelRunning /\ hPc[h] = "switch"
    /\ IF hMsg[h].Typ \in CodeTags
       THEN /\ notOkErr(hMsg[h].ok)
            /\ hOk' = [hOk EXCEPT ![h] = hMsg[h].ok]
            /\ hPc' = [hPc EXCEPT ![h] = IF hMsg[h].ok THEN BranchPc(hMsg[h].Typ)
                                         ELSE "not_ok"]
       ELSE /\ errFatal
            /\ hPc' = [hPc EXCEPT ![h] = "default"]
            /\ UNCHANGED hOk
    /\ UNCHANGED <<n, m, mainPc, accepted, connPc, connMsg, connSent,
                   chanToCoordinator, chanClosed, wg, wg_done, coordPc, nodeInfos,
                   committees, i, c, committeeInfos, iCommittee, lastCommittee,
                   checkTotalF, msg, bcast>>
    /\ UNCHANGED <<spawned, hMsg, hS, rMap, rMapMux, idaresults, idaMux, files, rAcq, idaAcq, finalBlockChan>>

\* finalBlockChan <- block (475): blocks while the buffer (capacity
\* flagArgs.m * 2, line 175) is full
FinalBlockSend(h) ==
    /\ TelRunning /\ hPc[h] = "finalblock_send"
    /\ Len(finalBlockChan) < 2 * m
    /\ finalBlockChan' = Append(finalBlockChan, h)
    /\ hPc' = [hPc EXCEPT ![h] = "returned"]
    /\ UNCHANGED bootVars
    /\ UNCHANGED <<spawned, hMsg, hOk, hS, rMap, rMapMux, idaresults, idaMux, files, rAcq, idaAcq>>

\* txGenerator (called on line 423) takes a block from finalBlockChan
TxGeneratorRecv ==
    /\ TelRunning /\ coordPc = "txGenerator"
    /\ finalBlockChan # <<>>
    /\ finalBlockChan' = Tail(finalBlockChan)
    /\ UNCHANGED bootVars
    /\ UNCHANGED <<spawned, hPc, hMsg, hOk, hS, rMap, rMapMux, idaresults, idaMux, files, rAcq, idaAcq>>

\* writeIntToFile(dur.Nanoseconds(), files[1]) for pocverify (479) and
\* files[2] for pocadd (483)
PocFile(typ) == IF typ = "pocverify" THEN 1 ELSE 2

PocWrite(h) ==
    /\ TelRunning /\ hPc[h] = "poc_write"
    /\ files' = [files EXCEPT ![PocFile(hMsg[h].Typ)] =
                    Append(@, [by |-> h, line |-> prepareResultString(<<FormatInt(hMsg[h].D)>>)])]
    /\ hPc' = [hPc EXCEPT ![h] = "returned"]
    /\ UNCHANGED bootVars
    /\ UNCHANGED <<spawned, hMsg, hOk, hS, rMap, rMapMux, idaresults, idaMux, rAcq, idaAcq, finalBlockChan>>

\* if len(bat.B) != 88 { errFatal(...) } (558-560)
AcceptFailLen(h) ==
    /\ TelRunning /\ hPc[h] = "accept_fail_len"
    /\ IF Len(hMsg[h].B) # 88
       THEN errFatal /\ hPc' = [hPc EXCEPT ![h] = "accept_fail_fatal"]
       ELSE proc' = proc /\ hPc' = [hPc EXCEPT ![h] = "accept_fail_write"]
    /\ UNCHANGED <<n, m, mainPc, accepted, connPc, connMsg, connSent,
                   chanToCoordinator, chanClosed, wg, wg_done, coordPc, nodeInfos,
                   committees, i, c, committeeInfos, iCommittee, lastCommittee,
                   checkTotalF, msg, bcast>>
    /\ UNCHANGED <<spawned, hMsg, hOk, hS, rMap, rMapMux, idaresults, idaMux, files, rAcq, idaAcq, finalBlockChan>>

\* the fields cut out of the 88 bytes (562-566) and the line of line 568
\* (the [32]byte values are named by their digest byte)
toByte32(b) == b[1]

\* (mutant of AcceptFailLine: rec read from the bytes of totalVotes)
AcceptFailLineSameOffset(b) ==
    <<bytes32ToString(toByte32(SubSeq(b, 1, 32))),
      bytes32ToString(toByte32(SubSeq(b, 33, 64))),
      FormatInt(Uint64(SubSeq(b, 65, 72))),
      FormatInt(Int64(SubSeq(b, 73, 80))),
      FormatInt(Int64(SubSeq(b, 73, 80)))>>

AcceptFailLine(b) ==
    <<bytes32ToString(toByte32(SubSeq(b, 1, 32))),
      bytes32ToString(toByte32(SubSeq(b, 33, 64))),
      FormatInt(Uint64(SubSeq(b, 65, 72))),
      FormatInt(Int64(SubSeq(b, 73, 80))),
      FormatInt(Int64(SubSeq(b, 81, 88)))>>

\* writeStringToFile(s, files[5]) (569)
AcceptFailWrite(h) ==
    /\ TelRunning /\ hPc[h] = "accept_fail_write"
    /\ hS' = [hS EXCEPT ![h] = AcceptFailLine(hMsg[h].B)]
    /\ files' = [files EXCEPT ![5] =
                    Append(@, [by |-> h, line |-> prepareResultString(AcceptFailLine(hMsg[h].B))])]
    /\ hPc' = [hPc EXCEPT ![h] = "returned"]
    /\ UNCHANGED bootVars
    /\ UNCHANGED <<spawned, hMsg, hOk, rMap, rMapMux, idaresults, idaMux, rAcq, idaAcq, finalBlockChan>>

NextDispatch ==
    \/ AcceptMsg
    \/ \E h \in Handlers : Dispatch(h)
    \/ \E h \in Handlers : FinalBlockSend(h)
    \/ TxGeneratorRecv
    \/ \E h \in Handlers : PocWrite(h)
    \/ \E h \in Handlers : AcceptFailLen(h)
    \/ \E h \in Handlers : AcceptFailWrite(h)
    \/ \E h \in Handlers : RMapAdd(h)
    \/ \E h \in Handlers : RMapGet(h)
    \/ \E h \in Handlers : AddStartLock(h)
    \/ \E h \in Handlers : AddStart(h)
    \/ \E h \in Handlers : AddLock(h)
    \/ \E h \in Handlers : Add(h)
    \/ \E h \in Handlers : AddEndLock(h)
    \/ \E h \in Handlers : AddEnd(h)
    \/ \E h \in Handlers : RouteSerialize(h)
    \/ \E h \in Handlers : RouteWrite(h)
    \/ \E h \in Handlers : IdaAdd(h)
    \/ \E h \in Handlers : IdaGet(h)
    \/ \E h \in Handlers : IdaStart(h)
    \/ \E h \in Handlers : AddReconstructedLock(h)
    \/ \E h \in Handlers : AddReconstructed(h)
    \/ \E h \in Handlers : IdaFlushLock(h)
    \/ \E h \in Handlers : IdaFlush(h)
    \/ \E h \in Handlers : IdaWrite(h)

SpecDispatch == InitTel /\ [][NextDispatch]_vars

\* ----------------------------------------------------- dispatcher claims
\* the lines of files[5] written by handler h
AcceptFailLinesOf(h) == {j \in 1..Len(files[5]) : files[5][j].by = h}

\* the five fields of a report, as the decimal / digest strings of the line
FieldStrings(f) ==
    <<ToString(f[1]), ToString(f[2]), ToString(f[3]), ToString(f[4]), ToString(f[5])>>

\* a consensus_accept_fail handler whose payload is not 88 bytes long
\* parses nothing, writes nothing and ends the process at the length test;
\* one whose payload is 88 bytes long appends exactly one line, holding the
\* write time and the five fields the payload encodes
AcceptFailHandled ==
    \A h \in 1..spawned :
        (hMsg[h].Typ = "consensus_accept_fail" /\ hMsg[h].ok) =>
            IF Len(hMsg[h].B) # 88
            THEN /\ AcceptFailLinesOf(h) = {} /\ hS[h] = <<>>
                 /\ hPc[h] \in {"switch", "accept_fail_len", "accept_fail_fatal"}
                 /\ hPc[h] = "accept_fail_fatal" => proc = "fatal"
            ELSE /\ Cardinality(AcceptFailLinesOf(h)) = (IF hPc[h] = "returned" THEN 1 ELSE 0)
                 /\ \A j \in AcceptFailLinesOf(h) :
                       \E f \in AcceptFailFields :
                           /\ hMsg[h].B = AcceptFailBytes(f[1], f[2], f[3], f[4], f[5])
                           /\ files[5][j].line = <<"time.Now().Unix()">> \o FieldStrings(f)

\* the steps of a consensus_accept_fail handler leave both trackers as
\* they are
AcceptFailKeepsTrackers ==
    \A h \in Handlers :
        (hPc[h] \in {"accept_fail_len", "accept_fail_write"} /\ hPc'[h] # hPc[h])
            => rMap' = rMap /\ idaresults' = idaresults

RouteLinesBy(h) == {j \in 1..Len(files[3]) : files[3][j].by = h}

\* the positions of a handler that runs markEnd and its flush
MarkEndPath ==
    {"switch", "rmap_add", "rmap_get", "addEnd_lock", "addEnd",
     "route_serialize", "route_write", "returned"}

\* every message with this tag (and the payload of the wire table) goes to
\* addEnd of the record of its id; once addEnd has run the record's end is
\* set, and the handler has written the record to files[3], once, exactly
\* when its addEnd call was the authoritative one
DispatchedToMarkEnd(tag) ==
    \A h \in 1..spawned :
        (hMsg[h].Typ = tag /\ hMsg[h].ok) =>
            /\ hPc[h] \in MarkEndPath
            /\ hPc[h] \in {"route_serialize", "route_write", "returned"} =>
                  /\ hMsg[h].id \in DOMAIN rMap
                  /\ rMap[hMsg[h].id].end # ZeroTime
            /\ Cardinality(RouteLinesBy(h)) = (IF hPc[h] = "returned" /\ hOk[h] THEN 1 ELSE 0)
            /\ \A j \in RouteLinesBy(h) :
                  /\ Len(files[3][j].line) >= 3
                  /\ files[3][j].line[3] = ToString(rMap[hMsg[h].id].end - UnixEpoch)

\* C15 as stated: a message with tag transaction_received is dispatched to
\* the route-tx tracker's markEnd for its id and, when that call is
\* authoritative, triggers the flush of the record to files[3]
C15_TransactionReceived_TableTag == DispatchedToMarkEnd("transaction_received")

\* C15 (amended): a message with tag transaction_recieved (the case label
\* of the switch) is dispatched to the route-tx tracker's markEnd for its
\* id and, when that call is authoritative, triggers the flush of the
\* record to files[3]
C15_TransactionRecieved == DispatchedToMarkEnd("transaction_recieved")

\* two end-of-route reports of one id returned: the authoritative one wrote
\* the record, the other wrote nothing
C15_Witness ==
    \E h1, h2 \in 1..spawned :
        /\ hMsg[h1].Typ = "transaction_recieved" /\ hMsg[h2].Typ = "transaction_recieved"
        /\ hPc[h1] = "returned" /\ hPc[h2] = "returned"
        /\ hOk[h1] /\ ~ hOk[h2]
        /\ Cardinality(RouteLinesBy(h1)) = 1 /\ RouteLinesBy(h2) = {}

\* the eleven tags of the wire-message table
TableTags ==
    {"IDASuccess", "consensus", "finalblock", "pocverify", "pocadd", "routetx",
     "find_node", "transaction_received", "start_ida_gossip",
     "reconstructed_ida_gossip", "consensus_accept_fail"}

\* the same table with the end-of-route tag spelled as the dispatcher's
\* case label spells it
TableTagsAsSpelledInCode ==
    (TableTags \ {"transaction_received"}) \cup {"transaction_recieved"}

\* handler h has written no line to any result file
WroteNothing(h) ==
    \A f \in DOMAIN files : \A j \in 1..Len(files[f]) : files[f][j].by # h

\* a handler whose tag is outside the tag set enters no case body: it
\* goes from the switch to a fatal exit only, has written nothing, and once
\* it has left the switch the process is terminated; a handler whose tag
\* is in the set never reaches the default branch
TagsHandled(tags) ==
    \A h \in 1..spawned :
        IF hMsg[h].Typ \in tags
        THEN hPc[h] # "default"
        ELSE /\ hPc[h] \in {"switch", "default", "not_ok"}
             /\ WroteNothing(h)
             /\ hPc[h] # "switch" => proc = "fatal"

\* the step into the default branch changes no tracker record, no result
\* file and no channel
DefaultStepInert ==
    \A h \in Handlers :
        (hPc[h] = "switch" /\ hPc'[h] = "default")
            => /\ rMap' = rMap /\ idaresults' = idaresults
               /\ files' = files /\ finalBlockChan' = finalBlockChan

\* C16 as stated, for the eleven tags of the wire-message table: a message
\* with any other tag is a fatal error (no tracker record modified, no
\* sink written, process terminated) and every tag of the table is handled
\* without reaching the default branch
C16_TableTagsHandled == TagsHandled(TableTags)

\* C16 (amended): the same for the table with the end-of-route tag spelled
\* transaction_recieved
C16_CodeTagsHandled ==
    []TagsHandled(TableTagsAsSpelledInCode) /\ [][DefaultStepInert]_vars

\* an unrecognized tag has ended the process while another handler's
\* record exists in a tracker
C16_Witness ==
    /\ proc = "fatal"
    /\ \E h \in 1..spawned : hPc[h] = "default" /\ hMsg[h].Typ = "unknown"
    /\ DOMAIN rMap # {} \/ DOMAIN idaresults # {}

\* ------------------------------------------------------- record locking
\* the record fields the next step of a handler at position pc reads and
\* writes: the bodies of addStart (66-67), add (53-58), addEnd (77-78), the
\* route serialisation (510-517), "ida.start = bat.T" (531),
\* addReconstructed (136-141) and the IDA serialisation (546-547)
FieldReads(pc) ==
    CASE pc = "addStart" -> {"start"}
      [] pc = "add" -> {"committees"}
      [] pc = "addEnd" -> {"end"}
      [] pc = "route_serialize" -> {"start", "end", "committees"}
      [] pc = "addReconstructed" -> {"reconstructed"}
      [] pc = "ida_flush" -> {"start", "reconstructed"}
      [] OTHER -> {}

FieldWrites(pc) ==
    CASE pc = "addStart" -> {"start"}
      [] pc = "add" -> {"committees"}
      [] pc = "addEnd" -> {"end"}
      [] pc = "ida_start" -> {"start"}
      [] pc = "addReconstructed" -> {"reconstructed"}
      [] OTHER -> {}

\* the tracker whose record a handler works on
OnRouteRecord(h) == hMsg[h].Typ \in {"routetx", "find_node", "transaction_recieved"}
OnIdaRecord(h) == hMsg[h].Typ \in {"start_ida_gossip", "reconstructed_ida_gossip"}

\* handler h holds the mutex of the record of its id
HoldsRecordLock(h) ==
    \/ OnRouteRecord(h) /\ hMsg[h].id \in DOMAIN rMap /\ rMap[hMsg[h].id].mux = h
    \/ OnIdaRecord(h) /\ hMsg[h].id \in DOMAIN idaresults /\ idaresults[hMsg[h].id].mux = h

SameRecord(h1, h2) ==
    /\ hMsg[h1].id = hMsg[h2].id
    /\ (OnRouteRecord(h1) /\ OnRouteRecord(h2)) \/ (OnIdaRecord(h1) /\ OnIdaRecord(h2))

\* C18: a handler about to read or write a field of a route or IDA record
\* (the serialisation at flush time included) holds that record's lock, and
\* in no reachable state is one handler about to write a field of a record
\* while another is about to read or write the same field
C18_FieldAccessUnderLock ==
    /\ \A h \in 1..spawned :
          (hMsg[h] # NoMsg /\ FieldReads(hPc[h]) \cup FieldWrites(hPc[h]) # {})
              => HoldsRecordLock(h)
    /\ \A h1, h2 \in 1..spawned :
          (h1 # h2 /\ hMsg[h1] # NoMsg /\ hMsg[h2] # NoMsg /\ SameRecord(h1, h2))
              => FieldWrites(hPc[h1]) \cap (FieldReads(hPc[h2]) \cup FieldWrites(hPc[h2])) = {}

\* -------------------------------------------------------------- ensure
\* a handler that is past the add and get of its branch has a record of
\* its id in the store of its tracker
PastGet(h) ==
    hPc[h] \notin {"unborn", "switch", "not_ok", "default", "rmap_add", "rmap_get",
                   "ida_add", "ida_get"}

EnsureReturnsRecord ==
    \A h \in 1..spawned :
        /\ hPc[h] # "nil_record"
        /\ (OnRouteRecord(h) /\ hPc[h] = "rmap_get") => hMsg[h].id \in DOMAIN rMap
        /\ (OnIdaRecord(h) /\ hPc[h] = "ida_get") => hMsg[h].id \in DOMAIN idaresults
        /\ (OnRouteRecord(h) /\ PastGet(h)) => hMsg[h].id \in DOMAIN rMap
        /\ (OnIdaRecord(h) /\ PastGet(h)) => hMsg[h].id \in DOMAIN idaresults

\* what a step may do to a store mp: no id is removed; an add of an id
\* that has a record changes nothing, an add of a new id creates its record
\* and touches no other; a get changes nothing and finds the record
StoreStep(mp, mpNext, addPc, getPc) ==
    /\ DOMAIN mp \subseteq DOMAIN mpNext
    /\ \A h \in Handlers :
          /\ (hPc[h] = addPc /\ hPc'[h] # addPc) =>
                IF hMsg[h].id \in DOMAIN mp
                THEN mpNext = mp
                ELSE /\ DOMAIN mpNext = DOMAIN mp \cup {hMsg[h].id}
                     /\ \A x \in DOMAIN mp : mpNext[x] = mp[x]
          /\ (hPc[h] = getPc /\ hPc'[h] # getPc) =>
                /\ mpNext = mp
                /\ hMsg[h].id \in DOMAIN mp
    /\ (\A h \in Handlers : hPc[h] = addPc => hPc'[h] = addPc)
           => DOMAIN mpNext = DOMAIN mp

EnsureStep ==
    /\ StoreStep(rMap, rMap', "rmap_add", "rmap_get")
    /\ StoreStep(idaresults, idaresults', "ida_add", "ida_get")

\* C19: ensure(id) is idempotent under concurrency in both stores: for any
\* interleaving of add and get calls at most one record is created per id,
\* an existing record is never replaced or removed, and every get that
\* follows a completed add returns that record, never nil
C19_EnsureIdempotent == []EnsureReturnsRecord /\ [][EnsureStep]_vars

\* a second handler has gone through add and get for an id whose record
\* the first handler created and wrote to
C19_Witness ==
    \E h1, h2 \in 1..spawned :
        /\ h1 # h2
        /\ hMsg[h1].Typ = "routetx" /\ hPc[h1] = "returned" /\ hOk[h1]
        /\ hMsg[h2].Typ = "transaction_recieved" /\ hPc[h2] = "addEnd_lock"
        /\ rMap[1].start = hMsg[h1].T

\* ------------------------------------------------------------- progress
\* any step of the handler goroutine of debug connection h
HandlerStep(h) ==
    \/ Dispatch(h) \/ FinalBlockSend(h) \/ PocWrite(h)
    \/ AcceptFailLen(h) \/ AcceptFailWrite(h)
    \/ RMapAdd(h) \/ RMapGet(h)
    \/ AddStartLock(h) \/ AddStart(h) \/ AddLock(h) \/ Add(h)
    \/ AddEndLock(h) \/ AddEnd(h) \/ RouteSerialize(h) \/ RouteWrite(h)
    \/ IdaAdd(h) \/ IdaGet(h) \/ IdaStart(h)
    \/ AddReconstructedLock(h) \/ AddReconstructed(h)
    \/ IdaFlushLock(h) \/ IdaFlush(h) \/ IdaWrite(h)

\* the Go scheduler runs every goroutine that can take a step; no fairness
\* is assumed of the connections arriving at the listener
SpecDispatchFair == SpecDispatch /\ \A h \in Handlers : WF_vars(HandlerStep(h))

\* the handlers that work on a tracker record
OnRecord(h) == hMsg[h] # NoMsg /\ hMsg[h].ok /\ (OnRouteRecord(h) \/ OnIdaRecord(h))

\* C20: under fair scheduling every routetx, find_node, transaction_recieved,
\* start_ida_gossip and reconstructed_ida_gossip handler finishes (unless
\* the process is ended by another handler): none blocks forever on a lock,
\* so a markStart or markEnd after a find_node report of the same id
\* completes
C20_HandlersFinish ==
    \A h \in Handlers :
        (hPc[h] # "unborn" /\ OnRecord(h)) ~> (hPc[h] = "returned" \/ proc # "running")

\* --------------------------------------------------- bootstrap progress
\* the steps of launchCoordinator, of the handler of connection k and of
\* the coordinator goroutine
MainStep == MainAccept \/ MainWaitDone

ConnStep(k) ==
    /\ k \in Conns
    /\ \/ ConnDecode(k) \/ ConnPublish(k) \/ ConnWgDone(k)
       \/ ConnEncode(k) \/ ConnSignalDone(k)

CoordStep ==
    \/ CoordWait \/ CoordClose \/ CoordDrain \/ CoordShuffle \/ CoordCommittees
    \/ CoordAssign \/ CoordCount \/ CoordCheck \/ CoordTotal \/ CoordBuild
    \/ CoordSend

\* all n nodes connect and send a decodable handshake (MainAccept and
\* ConnDecode always go through), and the Go scheduler runs every goroutine
\* that can take a step
SpecBootFair ==
    /\ SpecBoot
    /\ WF_vars(MainStep)
    /\ WF_vars(CoordStep)
    /\ \A k \in 1..MaxConn : WF_vars(ConnStep(k))

\* bootstrap is complete: the coordinator has sent every response, every
\* handler has encoded its response and returned, and launchCoordinator is
\* in the debug accept loop
BootstrapDone ==
    /\ coordPc = "txGenerator"
    /\ \A k \in Conns : connSent[k] = 1 /\ connPc[k] = "returned"
    /\ mainPc = "debug"

\* C21: for all n >= m > 0 with the default divisors, when n nodes connect
\* and send a decodable handshake, under fair scheduling bootstrap
\* completes: there is no abort and no runtime fault, every connection
\* handler receives and encodes the response, and launchCoordinator reaches
\* the debug accept loop
C21_BootstrapCompletes == [](proc = "running") /\ <>BootstrapDone

====
